---------------------------- MODULE Spec2Model ----------------------------
(***************************************************************************)
(* Model of the LaTeX2AI global settings object L2A::GLOBAL::Global        *)
(* (src/src/l2a_global.cpp): construction (defaults, settings file load,   *)
(* validation and interactive repair of the Ghostscript command and of the *)
(* LaTeX binary directory), the two repair-setters, the two validation     *)
(* predicates, the parameter list encoding of the six fields, the          *)
(* destructor that saves them, and the global pointers _l2a_global and     *)
(* _l2a_plugin with the accessors that dereference them.                   *)
(*                                                                         *)
(* Strings of the program are TLA+ strings.  An ai::FilePath is a record   *)
(* [full_path |-> s], so that the conversions between paths and strings    *)
(* are visible.  The captured output of a command is a sequence of tokens  *)
(* (words and the blanks between them), searched for the marker as         *)
(* std::string::find searches it.                                          *)
(***************************************************************************)
EXTENDS Integers, Sequences, FiniteSets, TLC

VARIABLES
    WIN_ENV,                 \* the platform the plug-in was compiled for
    latex_bin_path_,         \* ai::FilePath
    latex_engine_,           \* string
    latex_command_options_,  \* string
    gs_command_,             \* string
    warning_boundary_boxes_, \* bool
    warning_ai_not_saved_,   \* bool
    file,                    \* the settings file LaTeX2AI_application_data.xml
    pc,                      \* position in the life of the object
    caller,                  \* who called the running repair-setter
    gs_command,              \* local candidate of SetGhostscriptCommand
    path,                    \* local candidate of SetLatexCommand
    ret,                     \* result of the last repair-setter call
    last_check,              \* the last run of a validation predicate
    entry,                   \* the six fields when the repair-setter was entered
    count,                   \* prompts, dialogs and writes of the running call
    loaded,                  \* the load step: file found, outcome, fields after
    ctor_end,                \* how the constructor ended
    steps,                   \* the constructor's steps, in the order taken
    calls,                   \* repair-setter calls made after construction
    _l2a_global,             \* the global pointer to the Global object
    _l2a_plugin,             \* the global pointer to the plug-in object
    access,                  \* the last call of an accessor and what it did
    latex_path,              \* parameter of the running SetLatexCommand call
    err,                     \* local AIErr of the running repair-setter
    validated                \* values a predicate accepted in the constructor,
                             \* kept until the next call on the object

fields ==
    << latex_bin_path_, latex_engine_, latex_command_options_, gs_command_,
       warning_boundary_boxes_, warning_ai_not_saved_ >>

vars ==
    << WIN_ENV, latex_bin_path_, latex_engine_, latex_command_options_,
       gs_command_, warning_boundary_boxes_, warning_ai_not_saved_, file, pc,
       caller, gs_command, path, ret, last_check, entry, count, loaded,
       ctor_end, steps, calls, _l2a_global, _l2a_plugin, access, latex_path,
       err, validated >>

-----------------------------------------------------------------------------
(* Bounds of the model. *)

\* Most file or directory dialogs one repair-setter call may show.
MaxDialogs == 2

\* Most repair-setter calls made through the mutable accessor after
\* construction.
MaxCalls == 1

-----------------------------------------------------------------------------
(* ai::FilePath and the string helpers. *)

FilePath(s) == [full_path |-> s]

GetFullPath(p) == p.full_path

IsEmpty(p) == p.full_path = ""

AddComponent(p, c) == FilePath(p.full_path \o "/" \o c)

IntegerToString(n) ==
    CASE n = 0 -> "0"
      [] n = 1 -> "1"
      [] n = 2 -> "2"

StringToInteger(s) ==
    CASE s = "0" -> 0
      [] s = "1" -> 1
      [] s = "2" -> 2

BoolToInt(b) == IF b THEN 1 ELSE 0

IntToBool(n) == n # 0

\* output_.find(marker) != npos : the marker occurs as a contiguous part.
Find(output_, marker) ==
    \E i \in 1..(Len(output_) - Len(marker) + 1) :
        SubSeq(output_, i, i + Len(marker) - 1) = marker

-----------------------------------------------------------------------------
(* L2A::UTIL::ParameterList: a flat map from keys to strings. *)

EmptyList == << >>

SetOptionString(list, key, value) ==
    [k \in (DOMAIN list) \cup {key} |-> IF k = key THEN value ELSE list[k]]

SetOptionPath(list, key, value) == SetOptionString(list, key, GetFullPath(value))

SetOptionBool(list, key, value) ==
    SetOptionString(list, key, IntegerToString(BoolToInt(value)))

OptionExists(list, key) == key \in DOMAIN list

GetStringOption(list, key) == list[key]

GetIntOption(list, key) == StringToInteger(GetStringOption(list, key))

\* ToXMLString(root) and the ParameterList(xml_string) constructor.
ToXMLString(list, root) == [wellformed |-> TRUE, root |-> root, options |-> list]

XmlParses(text) == text.wellformed

ParameterListFromXml(text) == text.options

-----------------------------------------------------------------------------
(* The six fields as a parameter list, and back. *)

Keys ==
    { "latex_bin_path", "latex_engine", "latex_command_options", "gs_command",
      "warning_boundary_boxes", "warning_ai_not_saved" }

\* ToParameterList with the engine stored under the key of the options.
ToParameterListWrongKey ==
    LET l1 == SetOptionPath(EmptyList, "latex_bin_path", latex_bin_path_)
        l2 == SetOptionString(l1, "latex_engine", latex_engine_)
        l3 == SetOptionString(l2, "latex_command_options", latex_engine_)
        l4 == SetOptionString(l3, "gs_command", gs_command_)
        l5 == SetOptionBool(l4, "warning_boundary_boxes", warning_boundary_boxes_)
        l6 == SetOptionBool(l5, "warning_ai_not_saved", warning_ai_not_saved_)
    IN  l6

ToParameterList ==
    LET l1 == SetOptionPath(EmptyList, "latex_bin_path", latex_bin_path_)
        l2 == SetOptionString(l1, "latex_engine", latex_engine_)
        l3 == SetOptionString(l2, "latex_command_options", latex_command_options_)
        l4 == SetOptionString(l3, "gs_command", gs_command_)
        l5 == SetOptionBool(l4, "warning_boundary_boxes", warning_boundary_boxes_)
        l6 == SetOptionBool(l5, "warning_ai_not_saved", warning_ai_not_saved_)
    IN  l6

GlobalToString == ToXMLString(ToParameterList, "LaTeX2AI_options")

\* GetDefaultParameterList without its last line.
GetDefaultParameterListFiveKeys ==
    LET l1 == SetOptionString(EmptyList, "latex_bin_path", "")
        l2 == SetOptionString(l1, "latex_engine", "pdflatex")
        l3 == SetOptionString(l2, "latex_command_options",
                  "-interaction nonstopmode -halt-on-error -file-line-error")
        l4 == SetOptionString(l3, "gs_command", "")
        l5 == SetOptionBool(l4, "warning_boundary_boxes", TRUE)
    IN  l5

GetDefaultParameterList ==
    LET l1 == SetOptionString(EmptyList, "latex_bin_path", "")
        l2 == SetOptionString(l1, "latex_engine", "pdflatex")
        l3 == SetOptionString(l2, "latex_command_options",
                  "-interaction nonstopmode -halt-on-error -file-line-error")
        l4 == SetOptionString(l3, "gs_command", "")
        l5 == SetOptionBool(l4, "warning_boundary_boxes", TRUE)
        l6 == SetOptionBool(l5, "warning_ai_not_saved", TRUE)
    IN  l6

\* SetFromParameterList without the else branch of the last key.
SetFromParameterListNoElse(cur, parameter_list) ==
    [ latex_bin_path_ |->
          IF OptionExists(parameter_list, "latex_bin_path")
          THEN FilePath(GetStringOption(parameter_list, "latex_bin_path"))
          ELSE cur[1],
      latex_engine_ |->
          IF OptionExists(parameter_list, "latex_engine")
          THEN GetStringOption(parameter_list, "latex_engine")
          ELSE cur[2],
      latex_command_options_ |->
          IF OptionExists(parameter_list, "latex_command_options")
          THEN GetStringOption(parameter_list, "latex_command_options")
          ELSE cur[3],
      gs_command_ |->
          IF OptionExists(parameter_list, "gs_command")
          THEN GetStringOption(parameter_list, "gs_command")
          ELSE cur[4],
      warning_boundary_boxes_ |->
          IF OptionExists(parameter_list, "warning_boundary_boxes")
          THEN IntToBool(GetIntOption(parameter_list, "warning_boundary_boxes"))
          ELSE cur[5],
      warning_ai_not_saved_ |->
          IF OptionExists(parameter_list, "warning_ai_not_saved")
          THEN IntToBool(GetIntOption(parameter_list, "warning_ai_not_saved"))
          ELSE cur[6],
      set_all |->
          /\ OptionExists(parameter_list, "latex_bin_path")
          /\ OptionExists(parameter_list, "latex_engine")
          /\ OptionExists(parameter_list, "latex_command_options")
          /\ OptionExists(parameter_list, "gs_command")
          /\ OptionExists(parameter_list, "warning_boundary_boxes") ]

\* The fields and the result of SetFromParameterList(parameter_list) when the
\* fields are cur (in the order of the tuple fields) before the call.
SetFromParameterList(cur, parameter_list) ==
    [ latex_bin_path_ |->
          IF OptionExists(parameter_list, "latex_bin_path")
          THEN FilePath(GetStringOption(parameter_list, "latex_bin_path"))
          ELSE cur[1],
      latex_engine_ |->
          IF OptionExists(parameter_list, "latex_engine")
          THEN GetStringOption(parameter_list, "latex_engine")
          ELSE cur[2],
      latex_command_options_ |->
          IF OptionExists(parameter_list, "latex_command_options")
          THEN GetStringOption(parameter_list, "latex_command_options")
          ELSE cur[3],
      gs_command_ |->
          IF OptionExists(parameter_list, "gs_command")
          THEN GetStringOption(parameter_list, "gs_command")
          ELSE cur[4],
      warning_boundary_boxes_ |->
          IF OptionExists(parameter_list, "warning_boundary_boxes")
          THEN IntToBool(GetIntOption(parameter_list, "warning_boundary_boxes"))
          ELSE cur[5],
      warning_ai_not_saved_ |->
          IF OptionExists(parameter_list, "warning_ai_not_saved")
          THEN IntToBool(GetIntOption(parameter_list, "warning_ai_not_saved"))
          ELSE cur[6],
      set_all |->
          /\ OptionExists(parameter_list, "latex_bin_path")
          /\ OptionExists(parameter_list, "latex_engine")
          /\ OptionExists(parameter_list, "latex_command_options")
          /\ OptionExists(parameter_list, "gs_command")
          /\ OptionExists(parameter_list, "warning_boundary_boxes")
          /\ OptionExists(parameter_list, "warning_ai_not_saved") ]

\* The tuple of the six fields of a result of SetFromParameterList.
FieldsOf(r) ==
    << r.latex_bin_path_, r.latex_engine_, r.latex_command_options_,
       r.gs_command_, r.warning_boundary_boxes_, r.warning_ai_not_saved_ >>

\* The fields after SetFromParameterList(GetDefaultParameterList).
DefaultFields ==
    FieldsOf(SetFromParameterList(<< FilePath(""), "", "", "", FALSE, FALSE >>,
                                  GetDefaultParameterList))

-----------------------------------------------------------------------------
(* The validation predicates.  exec is what ExecuteCommandLine does with   *)
(* the command: it throws, or returns the captured output.                 *)

GhostscriptMarker == << " ", "Ghostscript", " " >>

PdfTeXMarker == << "pdfTeX" >>

\* The record of a run of a validation predicate that executed command:
\* its argument, what IsDirectory said of it, what the execution did and
\* the result returned.
Executed(kind, arg, is_directory, command, exec, marker) ==
    [ kind |-> kind, arg |-> arg, is_directory |-> is_directory,
      n_exec |-> 1, command |-> command,
      threw |-> exec.threw, output_ |-> exec.output_,
      result |-> IF exec.threw THEN FALSE ELSE Find(exec.output_, marker) ]

\* CheckGhostscriptCommand with a catch block that returns true.
CheckGhostscriptCommandCatchTrue(gs_cmd, exec) ==
    LET full_gs_command == "\"" \o gs_cmd \o "\" -v"
        run == Executed("gs", gs_cmd, FALSE, full_gs_command, exec,
                        GhostscriptMarker)
    IN  [run EXCEPT !.result = IF exec.threw THEN TRUE ELSE @]

CheckGhostscriptCommand(gs_cmd, exec) ==
    LET full_gs_command == "\"" \o gs_cmd \o "\" -v"
    IN  Executed("gs", gs_cmd, FALSE, full_gs_command, exec,
                 GhostscriptMarker)

PdfLatexBinary == IF WIN_ENV THEN "pdflatex.exe" ELSE "pdflatex"

\* CheckLatexCommand without the return in the last branch: the bare
\* command is executed for a path that is not a directory.
CheckLatexCommandFallsThrough(path_latex, is_directory, exec) ==
    IF is_directory
    THEN LET exe_path == AddComponent(path_latex, PdfLatexBinary)
             command_latex == "\"" \o GetFullPath(exe_path) \o "\""
         IN  Executed("latex", GetFullPath(path_latex), TRUE,
                      command_latex \o " -version", exec, PdfTeXMarker)
    ELSE Executed("latex", GetFullPath(path_latex), FALSE,
                  "pdflatex" \o " -version", exec, PdfTeXMarker)

CheckLatexCommand(path_latex, is_directory, exec) ==
    IF is_directory
    THEN LET exe_path == AddComponent(path_latex, PdfLatexBinary)
             command_latex == "\"" \o GetFullPath(exe_path) \o "\""
         IN  Executed("latex", GetFullPath(path_latex), TRUE,
                      command_latex \o " -version", exec, PdfTeXMarker)
    ELSE IF IsEmpty(path_latex)
    THEN Executed("latex", GetFullPath(path_latex), FALSE,
                  "pdflatex" \o " -version", exec, PdfTeXMarker)
    ELSE [ kind |-> "latex", arg |-> GetFullPath(path_latex),
           is_directory |-> FALSE, n_exec |-> 0, command |-> "",
           threw |-> FALSE, output_ |-> << >>, result |-> FALSE ]

-----------------------------------------------------------------------------
(* The values the environment and the user supply. *)

\* What ExecuteCommandLine may do: throw, or return one of these outputs.
GsBanner == << "GPL", " ", "Ghostscript", " ", "9.50" >>

GsNearMiss == << "Ghostscript", " ", "9.50" >>

TexBanner == << "pdfTeX", " ", "3.14159265" >>

ExecOutcomes ==
    { [threw |-> TRUE, output_ |-> << >>] } \cup
    { [threw |-> FALSE, output_ |-> o] : o \in { GsBanner, GsNearMiss, TexBanner } }

\* What IsDirectory may answer for a path: the empty path is no directory.
IsDirectoryOutcomes(p) == IF IsEmpty(p) THEN { FALSE } ELSE BOOLEAN

\* The result of L2A::UTIL::GetGhostScriptCommand (empty: nothing found).
DiscoveredCommands == { "", "gsA" }

\* What the user picks in the file dialog and in the directory dialog.
PickedFiles == { "gsA", "gsB" }

PickedDirectories == { "dirA", "dirB" }

\* The arguments of the repair-setters when called after construction.
ApiCommands == { "gsB" }

ApiPaths == { "", "dirA" }

TexBin == "/Library/TeX/texbin"

\* The settings documents found on disk: with a value that differs from the
\* default for every key, for all keys but one and for no key;
\* the document of the defaults; a complete document with an unknown key and
\* other integers; and a document with an unknown key only.
DocValue(k) ==
    CASE k = "latex_bin_path" -> "dirA"
      [] k = "latex_engine" -> "xelatex"
      [] k = "latex_command_options" -> "-shell-escape"
      [] k = "gs_command" -> "gsB"
      [] k = "warning_boundary_boxes" -> "0"
      [] k = "warning_ai_not_saved" -> "0"

KeySets == { Keys, {} } \cup { Keys \ { k } : k \in Keys }

Documents ==
    { [k \in S |-> DocValue(k)] : S \in KeySets } \cup
    { GetDefaultParameterList,
      [k \in Keys \cup { "unknown_key" } |->
          CASE k = "warning_boundary_boxes" -> "2"
            [] k = "warning_ai_not_saved" -> "0"
            [] k = "gs_command" -> "gsA"
            [] k = "latex_bin_path" -> "dirB"
            [] OTHER -> "pdflatex"],
      [k \in { "unknown_key" } |-> "1"] }

NoText == [wellformed |-> FALSE, root |-> "", options |-> EmptyList]

\* A text that does not parse although the six keys can be made out in it.
Garbled ==
    [ wellformed |-> FALSE, root |-> "LaTeX2AI_options",
      options |-> [k \in Keys |-> DocValue(k)] ]

Files ==
    { [exists |-> FALSE, text |-> NoText], [exists |-> TRUE, text |-> NoText],
      [exists |-> TRUE, text |-> Garbled] }
    \cup { [exists |-> TRUE, text |-> ToXMLString(d, "LaTeX2AI_options")] :
              d \in Documents }

-----------------------------------------------------------------------------
(* The initial state: the process has started, the object is not built.   *)

\* Lines 48-49: both global pointers start as nullptr.
nullptr == "nullptr"

NoAccess == [function |-> "none", outcome |-> "none", object |-> "none"]

NoneValidated == [gs |-> { }, latex |-> { }]

NoCheck ==
    [ kind |-> "none", arg |-> "", is_directory |-> FALSE, n_exec |-> 0,
      command |-> "", threw |-> FALSE, output_ |-> << >>, result |-> FALSE ]

ZeroCount == [confirm |-> 0, dialog |-> 0, write |-> 0, invalid |-> 0]

Init ==
    /\ WIN_ENV \in BOOLEAN
    /\ latex_bin_path_ = FilePath("")
    /\ latex_engine_ = ""
    /\ latex_command_options_ = ""
    /\ gs_command_ = ""
    /\ warning_boundary_boxes_ \in BOOLEAN
    /\ warning_ai_not_saved_ \in BOOLEAN
    /\ file \in Files
    /\ pc = "start"
    /\ caller = "none"
    /\ gs_command = ""
    /\ path = FilePath("")
    /\ ret = "none"
    /\ last_check = NoCheck
    /\ entry = << >>
    /\ count = ZeroCount
    /\ loaded = [ outcome |-> "none", warned |-> FALSE, fields |-> << >>,
                  found |-> [exists |-> FALSE, text |-> NoText] ]
    /\ ctor_end = "none"
    /\ steps = << >>
    /\ calls = 0
    /\ _l2a_global = nullptr
    /\ _l2a_plugin = nullptr
    /\ access = NoAccess
    /\ latex_path = FilePath("")
    /\ err = "kNoErr"
    /\ validated = NoneValidated

-----------------------------------------------------------------------------
(* The constructor, lines 55-104: version check, defaults, load, purge.   *)

\* The owner of the object runs `_l2a_global = new Global()` and, when the
\* process ends, deletes the object and resets the pointer: the pointer is
\* assigned when the constructor returns, stays nullptr when it throws and
\* is nullptr again once the destructor has run.
GlobalAfter(next_pc) ==
    IF next_pc = "constructed" THEN "Global"
    ELSE IF next_pc = "destroyed" THEN nullptr
    ELSE _l2a_global

\* The values the predicates have accepted in the constructor, after the
\* run c of a predicate.
Validated(c, in_constructor) ==
    IF in_constructor /\ c.result
    THEN [validated EXCEPT ![c.kind] = @ \cup { c.arg }]
    ELSE validated

\* The six fields become the tuple t.
SetFields(t) ==
    /\ latex_bin_path_' = t[1]
    /\ latex_engine_' = t[2]
    /\ latex_command_options_' = t[3]
    /\ gs_command_' = t[4]
    /\ warning_boundary_boxes_' = t[5]
    /\ warning_ai_not_saved_' = t[6]

CheckGithubVersion ==
    /\ pc = "start"
    /\ pc' = "defaults"
    /\ steps' = Append(steps, "version")
    /\ UNCHANGED << WIN_ENV, _l2a_plugin, access, fields, file, caller,
                    gs_command, path, ret, last_check, entry, count, loaded,
                    ctor_end, calls >>
    /\ _l2a_global' = GlobalAfter(pc')
    /\ UNCHANGED << latex_path, err, validated >>

SetDefaults ==
    /\ pc = "defaults"
    /\ SetFields(FieldsOf(SetFromParameterList(fields, GetDefaultParameterList)))
    /\ pc' = "load"
    /\ steps' = Append(steps, "defaults")
    /\ UNCHANGED << WIN_ENV, _l2a_plugin, access, file, caller, gs_command,
                    path, ret, last_check, entry, count, loaded, ctor_end,
                    calls >>
    /\ _l2a_global' = GlobalAfter(pc')
    /\ UNCHANGED << latex_path, err, validated >>

\* Load with the fields set from what can be read of a text before the
\* parse error is met.
LoadSetsBeforeParse(cur, f) ==
    IF f.exists
    THEN IF XmlParses(f.text)
         THEN LET r == SetFromParameterList(cur, ParameterListFromXml(f.text))
              IN  [ fields |-> FieldsOf(r), file |-> f,
                    outcome |-> IF r.set_all THEN "complete" ELSE "incomplete",
                    warned |-> ~r.set_all ]
         ELSE [ fields |->
                    FieldsOf(SetFromParameterList(cur, f.text.options)),
                file |-> [exists |-> FALSE, text |-> NoText],
                outcome |-> "corrupt", warned |-> FALSE ]
    ELSE [ fields |-> cur, file |-> f, outcome |-> "absent",
           warned |-> FALSE ]

\* Load with the warning of line 87 shown in the catch block as well.
LoadWarnsInCatch(cur, f) ==
    IF f.exists
    THEN IF XmlParses(f.text)
         THEN LET r == SetFromParameterList(cur, ParameterListFromXml(f.text))
              IN  [ fields |-> FieldsOf(r), file |-> f,
                    outcome |-> IF r.set_all THEN "complete" ELSE "incomplete",
                    warned |-> ~r.set_all ]
         ELSE [ fields |-> cur, file |-> [exists |-> FALSE, text |-> NoText],
                outcome |-> "corrupt", warned |-> TRUE ]
    ELSE [ fields |-> cur, file |-> f, outcome |-> "absent",
           warned |-> FALSE ]

\* Lines 78-100: what the load step makes of the settings file f when the
\* fields are cur: the fields, the file, the outcome and whether the
\* warning was shown.
Load(cur, f) ==
    IF f.exists
    THEN IF XmlParses(f.text)
         THEN LET r == SetFromParameterList(cur, ParameterListFromXml(f.text))
              IN  [ fields |-> FieldsOf(r), file |-> f,
                    outcome |-> IF r.set_all THEN "complete" ELSE "incomplete",
                    warned |-> ~r.set_all ]
         ELSE [ fields |-> cur, file |-> [exists |-> FALSE, text |-> NoText],
                outcome |-> "corrupt", warned |-> FALSE ]
    ELSE [ fields |-> cur, file |-> f, outcome |-> "absent",
           warned |-> FALSE ]

\* LoadSettings followed at once by the validation of the Ghostscript
\* command: the temporary directory is not purged.
LoadSettingsThenValidate ==
    /\ pc = "load"
    /\ LET l == Load(fields, file)
       IN  /\ SetFields(l.fields)
           /\ file' = l.file
           /\ loaded' = [ outcome |-> l.outcome, warned |-> l.warned,
                          fields |-> l.fields, found |-> file ]
    /\ pc' = "gs_validate"
    /\ steps' = Append(steps, "load")
    /\ UNCHANGED << WIN_ENV, _l2a_plugin, access, caller, gs_command, path,
                    ret, last_check, entry, count, ctor_end, calls >>
    /\ _l2a_global' = GlobalAfter(pc')
    /\ UNCHANGED << latex_path, err, validated >>

LoadSettings ==
    /\ pc = "load"
    /\ LET l == Load(fields, file)
       IN  /\ SetFields(l.fields)
           /\ file' = l.file
           /\ loaded' = [ outcome |-> l.outcome, warned |-> l.warned,
                          fields |-> l.fields, found |-> file ]
    /\ pc' = "purge"
    /\ steps' = Append(steps, "load")
    /\ UNCHANGED << WIN_ENV, _l2a_plugin, access, caller, gs_command, path,
                    ret, last_check, entry, count, ctor_end, calls >>
    /\ _l2a_global' = GlobalAfter(pc')
    /\ UNCHANGED << latex_path, err, validated >>

ClearTemporaryDirectory ==
    /\ pc = "purge"
    /\ pc' = "gs_validate"
    /\ steps' = Append(steps, "purge")
    /\ UNCHANGED << WIN_ENV, _l2a_plugin, access, fields, file, caller,
                    gs_command, path, ret, last_check, entry, count, loaded,
                    ctor_end, calls >>
    /\ _l2a_global' = GlobalAfter(pc')
    /\ UNCHANGED << latex_path, err, validated >>

-----------------------------------------------------------------------------
(* How a repair-setter is entered and left.                                *)

\* The call begins: the fields at entry are remembered, the counts start.
Enter(who, at_entry) ==
    /\ caller' = who
    /\ entry' = at_entry
    /\ count' = ZeroCount
    /\ ret' = "none"
    /\ err' = "kNoErr"

\* AfterSetGhostscriptCommand with the result ignored in the constructor.
AfterSetGhostscriptCommandIgnored(value) ==
    IF caller = "ctor" THEN "latex_validate" ELSE "constructed"

\* Where the program continues when SetGhostscriptCommand returns value:
\* line 113 in the constructor, the caller's code after construction.
AfterSetGhostscriptCommand(value) ==
    IF caller = "ctor"
    THEN IF value THEN "latex_validate" ELSE "constructed"
    ELSE "constructed"

\* How the constructor has ended, if it has, when a repair-setter returns
\* value to it: lines 113 and 123-125.
CtorEndAfter(setter, value) ==
    IF caller = "ctor"
    THEN IF value
         THEN IF setter = "gs" THEN ctor_end ELSE "complete"
         ELSE IF setter = "gs" THEN "gs_failed" ELSE "latex_failed"
    ELSE ctor_end

\* Throw with every error of a dialog handled as kCanceledErr is: the
\* repair-setter returns false.
ThrowReturnsFalse ==
    /\ ret' = "false"
    /\ pc' = "constructed"
    /\ ctor_end' = IF caller = "ctor" THEN "gs_failed" ELSE ctor_end

\* l2a_check_ai_error throws: out of the constructor (no object is built),
\* or to the caller of the repair-setter.
Throw ==
    /\ ret' = "error"
    /\ pc' = IF caller = "ctor" THEN "fatal" ELSE "constructed"
    /\ ctor_end' = IF caller = "ctor" THEN "fatal" ELSE ctor_end

-----------------------------------------------------------------------------
(* The Ghostscript command: lines 106-114 and SetGhostscriptCommand.       *)

\* CtorCheckGhostscript with the result of line 107 not tested: the
\* constructor goes on to the LaTeX directory.
CtorCheckGhostscriptUntested ==
    /\ pc = "gs_validate"
    /\ \E exec \in ExecOutcomes :
          LET c == CheckGhostscriptCommand(gs_command_, exec)
          IN  /\ last_check' = c
              /\ validated' = Validated(c, TRUE)
              /\ pc' = "latex_validate"
    /\ steps' = Append(steps, "gs_check")
    /\ UNCHANGED << WIN_ENV, _l2a_plugin, access, fields, file, caller,
                    gs_command, path, ret, entry, count, loaded, ctor_end,
                    calls >>
    /\ _l2a_global' = GlobalAfter(pc')
    /\ UNCHANGED << latex_path, err >>

\* CtorCheckGhostscript with the repair begun whatever line 107 returns.
CtorCheckGhostscriptAlwaysRepairs ==
    /\ pc = "gs_validate"
    /\ \E exec \in ExecOutcomes :
          LET c == CheckGhostscriptCommand(gs_command_, exec)
          IN  /\ last_check' = c
              /\ validated' = Validated(c, TRUE)
              /\ pc' = "gs_discover"
    /\ steps' = Append(steps, "gs_check")
    /\ UNCHANGED << WIN_ENV, _l2a_plugin, access, fields, file, caller,
                    gs_command, path, ret, entry, count, loaded, ctor_end,
                    calls >>
    /\ _l2a_global' = GlobalAfter(pc')
    /\ UNCHANGED << latex_path, err >>

CtorCheckGhostscript ==
    /\ pc = "gs_validate"
    /\ \E exec \in ExecOutcomes :
          LET c == CheckGhostscriptCommand(gs_command_, exec)
          IN  /\ last_check' = c
              /\ validated' = Validated(c, TRUE)
              /\ pc' = IF c.result THEN "latex_validate" ELSE "gs_discover"
    /\ steps' = Append(steps, "gs_check")
    /\ UNCHANGED << WIN_ENV, _l2a_plugin, access, fields, file, caller,
                    gs_command, path, ret, entry, count, loaded, ctor_end,
                    calls >>
    /\ _l2a_global' = GlobalAfter(pc')
    /\ UNCHANGED << latex_path, err >>

CtorGetGhostScriptCommand ==
    /\ pc = "gs_discover"
    /\ \E found \in DiscoveredCommands : gs_command' = found
    /\ Enter("ctor", fields)
    /\ pc' = "gs_loop"
    /\ steps' = Append(steps, "gs_repair")
    /\ UNCHANGED << WIN_ENV, _l2a_plugin, access, fields, file, path,
                    last_check, loaded, ctor_end, calls >>
    /\ _l2a_global' = GlobalAfter(pc')
    /\ UNCHANGED << latex_path, validated >>

\* Line 146 and lines 166-167: the loop test, and past the loop the commit.
GsLoop ==
    /\ pc = "gs_loop"
    /\ \E exec \in ExecOutcomes :
          LET c == CheckGhostscriptCommand(gs_command, exec)
          IN  /\ last_check' = c
              /\ validated' = Validated(c, caller = "ctor")
              /\ IF c.result
                 THEN /\ gs_command_' = gs_command
                      /\ count' = [count EXCEPT !.write = @ + 1]
                      /\ ret' = "true"
                      /\ pc' = AfterSetGhostscriptCommand(TRUE)
                      /\ ctor_end' = CtorEndAfter("gs", TRUE)
                      /\ gs_command' = ""
                 ELSE /\ count' = [count EXCEPT !.invalid = @ + 1]
                      /\ pc' = "gs_confirm"
                      /\ UNCHANGED << gs_command_, ret, ctor_end, gs_command >>
    /\ UNCHANGED << WIN_ENV, _l2a_plugin, access, latex_bin_path_, latex_engine_,
                    latex_command_options_, warning_boundary_boxes_,
                    warning_ai_not_saved_, file, caller, path, entry, loaded,
                    steps, calls >>
    /\ _l2a_global' = GlobalAfter(pc')
    /\ UNCHANGED << latex_path, err >>

\* GsOKCancelAlert with the loop test repeated after OK: no file dialog.
GsOKCancelAlertRetries ==
    /\ pc = "gs_confirm"
    /\ count' = [count EXCEPT !.confirm = @ + 1]
    /\ \E form_result \in BOOLEAN :
          IF form_result
          THEN /\ pc' = "gs_loop"
               /\ UNCHANGED << ret, ctor_end, gs_command >>
          ELSE /\ ret' = "false"
               /\ pc' = AfterSetGhostscriptCommand(FALSE)
               /\ ctor_end' = CtorEndAfter("gs", FALSE)
               /\ gs_command' = ""
    /\ UNCHANGED << WIN_ENV, _l2a_plugin, access, fields, file, caller, path,
                    last_check, entry, loaded, steps, calls >>
    /\ _l2a_global' = GlobalAfter(pc')
    /\ UNCHANGED << latex_path, err, validated >>

\* Lines 148-153.
GsOKCancelAlert ==
    /\ pc = "gs_confirm"
    /\ count' = [count EXCEPT !.confirm = @ + 1]
    /\ \E form_result \in BOOLEAN :
          IF form_result
          THEN /\ pc' = "gs_dialog"
               /\ UNCHANGED << ret, ctor_end, gs_command >>
          ELSE /\ ret' = "false"
               /\ pc' = AfterSetGhostscriptCommand(FALSE)
               /\ ctor_end' = CtorEndAfter("gs", FALSE)
               /\ gs_command' = ""
    /\ UNCHANGED << WIN_ENV, _l2a_plugin, access, fields, file, caller, path,
                    last_check, entry, loaded, steps, calls >>
    /\ _l2a_global' = GlobalAfter(pc')
    /\ UNCHANGED << latex_path, err, validated >>

\* GsGetFileDialog with the picked file stored in the field at once.
GsGetFileDialogStoresPick ==
    /\ pc = "gs_dialog"
    /\ count' = [count EXCEPT !.dialog = @ + 1]
    /\ \/ /\ err' = "kCanceledErr"
          /\ ret' = "false"
          /\ pc' = AfterSetGhostscriptCommand(FALSE)
          /\ ctor_end' = CtorEndAfter("gs", FALSE)
          /\ gs_command' = ""
          /\ UNCHANGED gs_command_
       \/ /\ err' = "kBadParameterErr"
          /\ Throw
          /\ gs_command' = ""
          /\ UNCHANGED gs_command_
       \/ /\ count.dialog < MaxDialogs
          /\ err' = "kNoErr"
          /\ \E picked \in PickedFiles :
                /\ gs_command' = GetFullPath(FilePath(picked))
                /\ gs_command_' = GetFullPath(FilePath(picked))
          /\ pc' = "gs_loop"
          /\ UNCHANGED << ret, ctor_end >>
    /\ UNCHANGED << WIN_ENV, _l2a_plugin, access, latex_bin_path_, latex_engine_,
                    latex_command_options_, warning_boundary_boxes_,
                    warning_ai_not_saved_, file, caller, path, last_check,
                    entry, loaded, steps, calls >>
    /\ _l2a_global' = GlobalAfter(pc')
    /\ UNCHANGED << latex_path, validated >>

\* Lines 155-163.
GsGetFileDialog ==
    /\ pc = "gs_dialog"
    /\ count' = [count EXCEPT !.dialog = @ + 1]
    /\ \/ /\ err' = "kCanceledErr"
          /\ ret' = "false"
          /\ pc' = AfterSetGhostscriptCommand(FALSE)
          /\ ctor_end' = CtorEndAfter("gs", FALSE)
          /\ gs_command' = ""
       \/ /\ err' = "kBadParameterErr"                  \* another error
          /\ Throw
          /\ gs_command' = ""
       \/ /\ count.dialog < MaxDialogs                  \* a file is picked
          /\ err' = "kNoErr"
          /\ \E picked \in PickedFiles :
                LET gs_path == FilePath(picked)
                IN  gs_command' = GetFullPath(gs_path)
          /\ pc' = "gs_loop"
          /\ UNCHANGED << ret, ctor_end >>
    /\ UNCHANGED << WIN_ENV, _l2a_plugin, access, fields, file, caller, path,
                    last_check, entry, loaded, steps, calls >>
    /\ _l2a_global' = GlobalAfter(pc')
    /\ UNCHANGED << latex_path, validated >>

-----------------------------------------------------------------------------
(* The LaTeX directory: lines 116-124 and SetLatexCommand.                 *)

\* FirstLatexCandidate with the first branch of the #ifdef on every platform.
FirstLatexCandidateAnyPlatform(argument) == argument

\* Lines 197-201: the first candidate of SetLatexCommand(latex_path).
FirstLatexCandidate(argument) ==
    IF WIN_ENV THEN argument ELSE FilePath(TexBin)

\* CtorCheckLatex without line 120: the field is not reset.
CtorCheckLatexKeepsPath ==
    /\ pc = "latex_validate"
    /\ \E is_directory \in IsDirectoryOutcomes(latex_bin_path_),
          exec \in ExecOutcomes :
          LET c == CheckLatexCommand(latex_bin_path_, is_directory, exec)
          IN  /\ last_check' = c
              /\ validated' = Validated(c, TRUE)
              /\ IF c.result
                 THEN /\ pc' = "constructed"
                      /\ ctor_end' = "complete"
                      /\ steps' = Append(steps, "latex_check")
                      /\ UNCHANGED << latex_bin_path_, caller, entry, count,
                                      ret, path, latex_path, err >>
                 ELSE /\ latex_bin_path_' = latex_bin_path_
                      /\ latex_path' = latex_bin_path_'
                      /\ path' = FirstLatexCandidate(latex_path')
                      /\ Enter("ctor", fields)
                      /\ pc' = "latex_loop"
                      /\ steps' = steps \o << "latex_check", "latex_repair" >>
                      /\ UNCHANGED ctor_end
    /\ UNCHANGED << WIN_ENV, _l2a_plugin, access, latex_engine_,
                    latex_command_options_, gs_command_,
                    warning_boundary_boxes_, warning_ai_not_saved_, file,
                    gs_command, loaded, calls >>
    /\ _l2a_global' = GlobalAfter(pc')

\* Lines 116-123.
CtorCheckLatex ==
    /\ pc = "latex_validate"
    /\ \E is_directory \in IsDirectoryOutcomes(latex_bin_path_),
          exec \in ExecOutcomes :
          LET c == CheckLatexCommand(latex_bin_path_, is_directory, exec)
          IN  /\ last_check' = c
              /\ validated' = Validated(c, TRUE)
              /\ IF c.result
                 THEN /\ pc' = "constructed"
                      /\ ctor_end' = "complete"
                      /\ steps' = Append(steps, "latex_check")
                      /\ UNCHANGED << latex_bin_path_, caller, entry, count,
                                      ret, path, latex_path, err >>
                 ELSE /\ latex_bin_path_' = FilePath("")
                      /\ latex_path' = latex_bin_path_'
                      /\ path' = FirstLatexCandidate(latex_path')
                      /\ Enter("ctor", [fields EXCEPT ![1] = FilePath("")])
                      /\ pc' = "latex_loop"
                      /\ steps' = steps \o << "latex_check", "latex_repair" >>
                      /\ UNCHANGED ctor_end
    /\ UNCHANGED << WIN_ENV, _l2a_plugin, access, latex_engine_,
                    latex_command_options_, gs_command_,
                    warning_boundary_boxes_, warning_ai_not_saved_, file,
                    gs_command, loaded, calls >>
    /\ _l2a_global' = GlobalAfter(pc')

\* LatexLoop with the loop test made once only: after a directory dialog
\* the picked directory is stored without a second test.
LatexLoopTestsOnce ==
    /\ pc = "latex_loop"
    /\ IF count.dialog > 0
       THEN /\ latex_bin_path_' = path
            /\ count' = [count EXCEPT !.write = @ + 1]
            /\ ret' = "true"
            /\ pc' = "constructed"
            /\ ctor_end' = CtorEndAfter("latex", TRUE)
            /\ path' = FilePath("")
            /\ latex_path' = FilePath("")
            /\ UNCHANGED << last_check, validated >>
       ELSE \E is_directory \in IsDirectoryOutcomes(path),
               exec \in ExecOutcomes :
               LET c == CheckLatexCommand(path, is_directory, exec)
               IN  /\ last_check' = c
                   /\ validated' = Validated(c, caller = "ctor")
                   /\ IF c.result
                      THEN /\ latex_bin_path_' = path
                           /\ count' = [count EXCEPT !.write = @ + 1]
                           /\ ret' = "true"
                           /\ pc' = "constructed"
                           /\ ctor_end' = CtorEndAfter("latex", TRUE)
                           /\ path' = FilePath("")
                           /\ latex_path' = FilePath("")
                      ELSE /\ count' = [count EXCEPT !.invalid = @ + 1]
                           /\ pc' = "latex_confirm"
                           /\ UNCHANGED << latex_bin_path_, ret, ctor_end,
                                           path, latex_path >>
    /\ UNCHANGED << WIN_ENV, _l2a_plugin, access, latex_engine_,
                    latex_command_options_, gs_command_,
                    warning_boundary_boxes_, warning_ai_not_saved_, file,
                    caller, gs_command, entry, loaded, steps, calls >>
    /\ _l2a_global' = GlobalAfter(pc')
    /\ UNCHANGED err

\* Line 204 and lines 221-222: the loop test, and past the loop the commit.
LatexLoop ==
    /\ pc = "latex_loop"
    /\ \E is_directory \in IsDirectoryOutcomes(path), exec \in ExecOutcomes :
          LET c == CheckLatexCommand(path, is_directory, exec)
          IN  /\ last_check' = c
              /\ validated' = Validated(c, caller = "ctor")
              /\ IF c.result
                 THEN /\ latex_bin_path_' = path
                      /\ count' = [count EXCEPT !.write = @ + 1]
                      /\ ret' = "true"
                      /\ pc' = "constructed"
                      /\ ctor_end' = CtorEndAfter("latex", TRUE)
                      /\ path' = FilePath("")
                      /\ latex_path' = FilePath("")
                 ELSE /\ count' = [count EXCEPT !.invalid = @ + 1]
                      /\ pc' = "latex_confirm"
                      /\ UNCHANGED << latex_bin_path_, ret, ctor_end, path,
                                      latex_path >>
    /\ UNCHANGED << WIN_ENV, _l2a_plugin, access, latex_engine_,
                    latex_command_options_, gs_command_,
                    warning_boundary_boxes_, warning_ai_not_saved_, file,
                    caller, gs_command, entry, loaded, steps, calls >>
    /\ _l2a_global' = GlobalAfter(pc')
    /\ UNCHANGED err

\* Lines 206-211.
LatexOKCancelAlert ==
    /\ pc = "latex_confirm"
    /\ count' = [count EXCEPT !.confirm = @ + 1]
    /\ \E form_result \in BOOLEAN :
          IF form_result
          THEN /\ pc' = "latex_dialog"
               /\ UNCHANGED << ret, ctor_end, path, latex_path >>
          ELSE /\ ret' = "false"
               /\ pc' = "constructed"
               /\ ctor_end' = CtorEndAfter("latex", FALSE)
               /\ path' = FilePath("")
               /\ latex_path' = FilePath("")
    /\ UNCHANGED << WIN_ENV, _l2a_plugin, access, fields, file, caller,
                    gs_command, last_check, entry, loaded, steps, calls >>
    /\ _l2a_global' = GlobalAfter(pc')
    /\ UNCHANGED << err, validated >>

\* Lines 213-218.
LatexGetDirectoryDialog ==
    /\ pc = "latex_dialog"
    /\ count' = [count EXCEPT !.dialog = @ + 1]
    /\ \/ /\ err' = "kCanceledErr"
          /\ ret' = "false"
          /\ pc' = "constructed"
          /\ ctor_end' = CtorEndAfter("latex", FALSE)
          /\ path' = FilePath("")
          /\ latex_path' = FilePath("")
       \/ /\ err' = "kBadParameterErr"                  \* another error
          /\ Throw
          /\ path' = FilePath("")
          /\ latex_path' = FilePath("")
       \/ /\ count.dialog < MaxDialogs                  \* a directory is picked
          /\ err' = "kNoErr"
          /\ \E picked \in PickedDirectories : path' = FilePath(picked)
          /\ pc' = "latex_loop"
          /\ UNCHANGED << ret, ctor_end, latex_path >>
    /\ UNCHANGED << WIN_ENV, _l2a_plugin, access, fields, file, caller,
                    gs_command, last_check, entry, loaded, steps, calls >>
    /\ _l2a_global' = GlobalAfter(pc')
    /\ UNCHANGED validated

-----------------------------------------------------------------------------
(* After construction: the repair-setters through the mutable accessor,    *)
(* and the destructor.                                                     *)

SetGhostscriptCommand ==
    /\ pc = "constructed"
    /\ calls < MaxCalls
    /\ calls' = calls + 1
    /\ \E argument \in ApiCommands : gs_command' = argument
    /\ Enter("api", fields)
    /\ pc' = "gs_loop"
    /\ UNCHANGED << WIN_ENV, _l2a_plugin, access, fields, file, path,
                    last_check, loaded, ctor_end, steps >>
    /\ _l2a_global' = GlobalAfter(pc')
    /\ validated' = NoneValidated
    /\ UNCHANGED latex_path

SetLatexCommand ==
    /\ pc = "constructed"
    /\ calls < MaxCalls
    /\ calls' = calls + 1
    /\ \E argument \in ApiPaths : latex_path' = FilePath(argument)
    /\ path' = FirstLatexCandidate(latex_path')
    /\ Enter("api", fields)
    /\ pc' = "latex_loop"
    /\ UNCHANGED << WIN_ENV, _l2a_plugin, access, fields, file, gs_command,
                    last_check, loaded, ctor_end, steps >>
    /\ _l2a_global' = GlobalAfter(pc')
    /\ validated' = NoneValidated

\* The destructor saving only over a settings file that is there.
DestructorKeepsAbsent ==
    /\ pc = "constructed"
    /\ file' = IF file.exists
               THEN [exists |-> TRUE, text |-> GlobalToString]
               ELSE file
    /\ pc' = "destroyed"
    /\ UNCHANGED << WIN_ENV, _l2a_plugin, access, fields, caller, gs_command,
                    path, ret, last_check, entry, count, loaded, ctor_end,
                    steps, calls >>
    /\ _l2a_global' = GlobalAfter(pc')
    /\ UNCHANGED << latex_path, err, validated >>

\* Lines 131-135: ~Global.
Destructor ==
    /\ pc = "constructed"
    /\ file' = [exists |-> TRUE, text |-> GlobalToString]
    /\ pc' = "destroyed"
    /\ UNCHANGED << WIN_ENV, _l2a_plugin, access, fields, caller, gs_command,
                    path, ret, last_check, entry, count, loaded, ctor_end,
                    steps, calls >>
    /\ _l2a_global' = GlobalAfter(pc')
    /\ UNCHANGED << latex_path, err, validated >>

Next ==
    \/ CheckGithubVersion
    \/ SetDefaults
    \/ LoadSettings
    \/ ClearTemporaryDirectory
    \/ CtorCheckGhostscript
    \/ CtorGetGhostScriptCommand
    \/ GsLoop
    \/ GsOKCancelAlert
    \/ GsGetFileDialog
    \/ CtorCheckLatex
    \/ LatexLoop
    \/ LatexOKCancelAlert
    \/ LatexGetDirectoryDialog
    \/ SetGhostscriptCommand
    \/ SetLatexCommand
    \/ Destructor

Spec == Init /\ [][Next]_vars

\* The steps of the running constructor and of a running repair-setter:
\* straight-line code that goes on, and modal prompts the user answers.
Running ==
    \/ CheckGithubVersion
    \/ SetDefaults
    \/ LoadSettings
    \/ ClearTemporaryDirectory
    \/ CtorCheckGhostscript
    \/ CtorGetGhostScriptCommand
    \/ GsLoop
    \/ GsOKCancelAlert
    \/ GsGetFileDialog
    \/ CtorCheckLatex
    \/ LatexLoop
    \/ LatexOKCancelAlert
    \/ LatexGetDirectoryDialog

-----------------------------------------------------------------------------
(* The global pointers and the accessors, lines 48-49 and 349-375.  The    *)
(* accessors may be called at any moment, by the plug-in and by what the   *)
(* constructor calls.  The plug-in assigns and resets _l2a_plugin on its   *)
(* own, before or after the Global object is built or destroyed.           *)

\* Lines 349-352: l2a_error is raised when _l2a_global is nullptr.
CheckGlobal == IF _l2a_global = nullptr THEN "l2a_error" ELSE "passed"

\* `return *pointer`: the object the pointer points to; of a nullptr the
\* behaviour is undefined, the build binds the reference to no object or
\* the process crashes.
Dereference(pointer) ==
    IF pointer = nullptr
    THEN { [outcome |-> "returned", object |-> nullptr],
           [outcome |-> "crashed", object |-> "none"] }
    ELSE { [outcome |-> "returned", object |-> pointer] }

Raised == { [outcome |-> "l2a_error", object |-> "none"] }

\* Lines 362-366.
GlobalMutable ==
    IF CheckGlobal = "l2a_error" THEN Raised ELSE Dereference(_l2a_global)

\* Line 357.
Global == GlobalMutable

\* Lines 371-375.
GlobalPluginMutable ==
    IF CheckGlobal = "l2a_error" THEN Raised ELSE Dereference(_l2a_plugin)

\* A call of the accessor function that does one of the things in results.
Call(function, results) ==
    /\ \E r \in results :
          access' = [ function |-> function, outcome |-> r.outcome,
                      object |-> r.object ]
    /\ UNCHANGED << WIN_ENV, fields, file, pc, caller, gs_command, path, ret,
                    last_check, entry, count, loaded, ctor_end, steps, calls,
                    _l2a_global, _l2a_plugin, latex_path, err, validated >>

CallGlobal == Call("Global", Global)

CallGlobalMutable == Call("GlobalMutable", GlobalMutable)

CallGlobalPluginMutable == Call("GlobalPluginMutable", GlobalPluginMutable)

AssignPlugin ==
    /\ _l2a_plugin = nullptr
    /\ _l2a_plugin' = "L2APlugin"
    /\ UNCHANGED << WIN_ENV, fields, file, pc, caller, gs_command, path, ret,
                    last_check, entry, count, loaded, ctor_end, steps, calls,
                    _l2a_global, access, latex_path, err, validated >>

ResetPlugin ==
    /\ _l2a_plugin # nullptr
    /\ _l2a_plugin' = nullptr
    /\ UNCHANGED << WIN_ENV, fields, file, pc, caller, gs_command, path, ret,
                    last_check, entry, count, loaded, ctor_end, steps, calls,
                    _l2a_global, access, latex_path, err, validated >>

\* The process started with no settings file.
InitNoFile ==
    /\ Init
    /\ ~file.exists
    /\ ~warning_boundary_boxes_
    /\ ~warning_ai_not_saved_

NextPlugin ==
    \/ Next
    \/ AssignPlugin
    \/ ResetPlugin
    \/ CallGlobal
    \/ CallGlobalMutable
    \/ CallGlobalPluginMutable

PluginSpec == InitNoFile /\ [][NextPlugin]_vars

\* The program with its code running on and every prompt answered; the
\* user picks at most MaxDialogs candidates that are not valid in one call.
LiveSpec == InitNoFile /\ [][Next]_vars /\ WF_vars(Running)

-----------------------------------------------------------------------------
(* Properties of the repair-setters.                                       *)

GsStates == { "gs_loop", "gs_confirm", "gs_dialog" }

LatexStates == { "latex_loop", "latex_confirm", "latex_dialog" }

\* What C1 asks of one step of a repair-setter that stores its candidate in
\* field, whose value at entry was at_entry: kind names its predicate.
WritesOnceAfterValidation(kind, field, field_next, at_entry, candidate) ==
    /\ count'.write <= 1
    /\ field_next # field => ret' = "true"
    /\ ret' = "true" =>
          /\ last_check'.kind = kind
          /\ last_check'.result
          /\ last_check'.arg = candidate
          /\ count'.write = 1
          /\ count'.confirm = count'.invalid
          /\ count'.dialog = count'.invalid
    /\ ret' # "true" => field_next = at_entry /\ count'.write = 0

\* C1: in both repair-setters the field is written at most once per call,
\* only in the step in which the validation predicate has returned true for
\* exactly the candidate written, and the call then returns true; the write
\* comes after as many confirmation prompts and dialogs as there were
\* invalid candidates.  Until then the field keeps its value at entry.
C1_WrittenOnceAfterValidation ==
    [][ /\ pc \in GsStates =>
              WritesOnceAfterValidation("gs", gs_command_, gs_command_',
                                        entry[4], gs_command_')
        /\ pc \in LatexStates =>
              WritesOnceAfterValidation("latex", latex_bin_path_,
                                        latex_bin_path_', entry[1],
                                        GetFullPath(latex_bin_path_')) ]_vars

\* Two invalid candidates, then a valid one: SetGhostscriptCommand has
\* returned true and the field has changed once.
C1_Witness ==
    /\ ret = "true"
    /\ last_check.kind = "gs"
    /\ count = [confirm |-> MaxDialogs, dialog |-> MaxDialogs, write |-> 1,
                invalid |-> MaxDialogs]
    /\ gs_command_ # entry[4]

\* C2: a step in which the user cancels, at the confirmation or in the file
\* or directory dialog, ends the repair-setter with false and with all six
\* fields as they were when the call began.
C2_CancelLeavesFields ==
    [][ ( \/ /\ pc \in { "gs_confirm", "latex_confirm" }
             /\ pc' \notin { "gs_dialog", "latex_dialog" }
          \/ /\ pc \in { "gs_dialog", "latex_dialog" }
             /\ pc' \notin { "gs_loop", "latex_loop" }
             /\ ret' # "error" )
        => /\ ret' = "false"
           /\ fields' = entry
           /\ entry' = entry ]_vars

\* The directory dialog is cancelled after MaxDialogs picked directories
\* that failed validation.
C2_Witness ==
    /\ ret = "false"
    /\ last_check.kind = "latex"
    /\ count.dialog = MaxDialogs + 1
    /\ count.invalid = MaxDialogs + 1
    /\ fields = entry

-----------------------------------------------------------------------------
(* Properties of the load step and of the parameter list encoding.         *)

HardcodedDefaults ==
    << FilePath(""), "pdflatex",
       "-interaction nonstopmode -halt-on-error -file-line-error", "", TRUE,
       TRUE >>

Range(f) == { f[i] : i \in DOMAIN f }

\* C3: when the load step has ended in the branch that deletes the settings
\* file, the six fields hold the hardcoded defaults after the step, the file
\* is gone (until the destructor writes it), and construction goes on to
\* the validation of the Ghostscript command.
C3_CorruptFileGivesDefaults ==
    loaded.outcome = "corrupt" =>
        /\ loaded.fields = HardcodedDefaults
        /\ pc \in { "purge", "gs_validate" } => fields = HardcodedDefaults
        /\ pc # "destroyed" => ~file.exists
        /\ pc \in { "purge", "gs_validate" } \/ "gs_check" \in Range(steps)

\* The settings file did not parse: it is deleted, the defaults stand and
\* the constructor is about to validate the Ghostscript command.
C3_Witness ==
    /\ loaded.outcome = "corrupt"
    /\ pc = "gs_validate"
    /\ ~file.exists
    /\ fields = HardcodedDefaults

\* What SetFromParameterList is to make of document d when the fields are
\* before: the fields after, and whether the load is complete.
Overlaid(d, before, after, complete) ==
    /\ after[1] = IF "latex_bin_path" \in DOMAIN d
                  THEN [full_path |-> d["latex_bin_path"]] ELSE before[1]
    /\ after[2] = IF "latex_engine" \in DOMAIN d
                  THEN d["latex_engine"] ELSE before[2]
    /\ after[3] = IF "latex_command_options" \in DOMAIN d
                  THEN d["latex_command_options"] ELSE before[3]
    /\ after[4] = IF "gs_command" \in DOMAIN d
                  THEN d["gs_command"] ELSE before[4]
    /\ after[5] = IF "warning_boundary_boxes" \in DOMAIN d
                  THEN d["warning_boundary_boxes"] # "0" ELSE before[5]
    /\ after[6] = IF "warning_ai_not_saved" \in DOMAIN d
                  THEN d["warning_ai_not_saved"] # "0" ELSE before[6]
    /\ complete <=> Keys \subseteq DOMAIN d

\* Documents with any subset of the six keys and with or without a key
\* that SetFromParameterList does not know.
AnyDocuments ==
    { [k \in S |-> IF k \in Keys THEN DocValue(k) ELSE "1"] :
         S \in SUBSET (Keys \cup { "unknown_key" }) }

\* C4: SetFromParameterList overwrites exactly the fields whose key is in
\* the document, leaves the others at their previous value (the default,
\* in the load step), takes no notice of other keys, and returns true
\* exactly if all six keys are there: for the document loaded from the
\* settings file, and for any document read before or after the load step.
C4_OverlayOfPresentKeys ==
    /\ (loaded.outcome \in { "complete", "incomplete" } /\ pc # "destroyed") =>
           Overlaid(file.text.options, HardcodedDefaults, loaded.fields,
                    loaded.outcome = "complete")
    /\ pc \in { "load", "gs_validate" } =>
           \A d \in AnyDocuments :
               LET r == SetFromParameterList(fields, d)
               IN  Overlaid(d, fields, FieldsOf(r), r.set_all)

\* A document without the key gs_command has been loaded: the field keeps
\* its default and the load is incomplete.
C4_Witness ==
    /\ pc = "purge"
    /\ loaded.outcome = "incomplete"
    /\ DOMAIN file.text.options = Keys \ { "gs_command" }
    /\ gs_command_ = ""
    /\ latex_engine_ = "xelatex"
    /\ ~warning_ai_not_saved_

\* C5: in every state, the six fields written with ToParameterList and read
\* back with SetFromParameterList, over fields that all differ, are the same
\* six values, and the load is complete.
C5_RoundTrip ==
    LET other == << FilePath("?"), "?", "?", "?", ~warning_boundary_boxes_,
                    ~warning_ai_not_saved_ >>
        r == SetFromParameterList(other, ToParameterList)
    IN  FieldsOf(r) = fields /\ r.set_all

\* The object has been constructed with no settings file, both paths were
\* repaired, and its state survives the round trip.
C5_Witness ==
    /\ loaded.outcome = "absent"
    /\ pc = "constructed"
    /\ ctor_end = "complete"
    /\ calls = 0
    /\ gs_command_ = "gsA"
    /\ latex_bin_path_ = FilePath("dirB")
    /\ latex_engine_ = "pdflatex"
    /\ FieldsOf(SetFromParameterList(<< FilePath("?"), "?", "?", "?", FALSE,
                                        FALSE >>, ToParameterList)) = fields

-----------------------------------------------------------------------------
(* Properties of the validation predicates.                                *)

CheckStates == { "gs_validate", "gs_loop", "latex_validate", "latex_loop" }

HasGhostscript(o) ==
    \E i \in 1..(Len(o) - 2) :
        o[i] = " " /\ o[i + 1] = "Ghostscript" /\ o[i + 2] = " "

HasPdfTeX(o) == \E i \in 1..Len(o) : o[i] = "pdfTeX"

\* C6: a step that runs a validation predicate never ends in the fatal
\* error; the predicate returns true exactly if the command was executed,
\* did not fail, and its output holds the marker; and no field changes in
\* the step but the one the caller of the predicate then writes: the
\* candidate it commits after true, the reset of line 120 after false.
C6_PredicatesReturnBoolean ==
    [][ (pc \in CheckStates) =>
          LET c == last_check'
          IN  /\ pc' # "fatal" /\ ret' # "error"
              /\ c.kind = IF pc \in { "gs_validate", "gs_loop" }
                          THEN "gs" ELSE "latex"
              /\ c.kind = "gs" =>
                    (c.result <=> /\ c.n_exec = 1
                                  /\ ~c.threw
                                  /\ HasGhostscript(c.output_))
              /\ c.kind = "latex" =>
                    (c.result <=> /\ c.n_exec = 1
                                  /\ ~c.threw
                                  /\ HasPdfTeX(c.output_))
              /\ \A i \in 1..6 :
                    fields'[i] # fields[i] =>
                        \/ i = 4 /\ pc = "gs_loop" /\ c.result
                        \/ i = 1 /\ pc = "latex_loop" /\ c.result
                        \/ i = 1 /\ pc = "latex_validate" /\ ~c.result
      ]_vars

\* The execution of the Ghostscript command has failed inside
\* SetGhostscriptCommand: the predicate has returned false and the
\* confirmation is about to be shown.
C6_Witness ==
    /\ pc = "gs_confirm"
    /\ last_check.kind = "gs"
    /\ last_check.threw
    /\ ~last_check.result

\* C7: CheckLatexCommand executes "<dir>/<pdflatex binary>" -version for a
\* directory, pdflatex -version for the empty path, and nothing (returning
\* false) for a path that is neither.
C7_LatexCommandByKindOfPath ==
    last_check.kind = "latex" =>
        /\ last_check.is_directory =>
              /\ last_check.n_exec = 1
              /\ last_check.command =
                    "\"" \o last_check.arg \o "/"
                         \o (IF WIN_ENV THEN "pdflatex.exe" ELSE "pdflatex")
                         \o "\" -version"
        /\ (~last_check.is_directory /\ last_check.arg = "") =>
              /\ last_check.n_exec = 1
              /\ last_check.command = "pdflatex -version"
        /\ (~last_check.is_directory /\ last_check.arg # "") =>
              /\ last_check.n_exec = 0
              /\ ~last_check.result

\* The loaded path dirA is no directory: nothing was executed.
C7_Witness ==
    /\ last_check.kind = "latex"
    /\ ~last_check.is_directory
    /\ last_check.arg = "dirA"
    /\ last_check.n_exec = 0
    /\ ~last_check.result

-----------------------------------------------------------------------------
(* Properties of the constructor and of the destructor.                    *)

\* C8: after the destructor the settings file exists and holds the six
\* fields as they were in memory, whatever the file was at the start and
\* however the constructor ended.
C8_DestructorSaves ==
    pc = "destroyed" =>
        /\ file.exists
        /\ file.text.wellformed
        /\ file.text.root = "LaTeX2AI_options"
        /\ DOMAIN file.text.options = Keys
        /\ FieldsOf(SetFromParameterList(
               << FilePath("?"), "?", "?", "?", ~warning_boundary_boxes_,
                  ~warning_ai_not_saved_ >>, file.text.options)) = fields

\* The settings file was deleted as corrupt, the constructor returned early
\* from the Ghostscript repair, and the destructor has written the file.
C8_Witness ==
    /\ pc = "destroyed"
    /\ loaded.outcome = "corrupt"
    /\ ctor_end = "gs_failed"
    /\ file.exists
    /\ file.text.options["latex_engine"] = "pdflatex"

\* C9: when the constructor has ended because SetGhostscriptCommand returned
\* false, CheckLatexCommand was not run and SetLatexCommand was not called
\* in the constructor, and until a repair-setter is called the six fields
\* are as the load step left them.
C9_GhostscriptFailureAborts ==
    ctor_end = "gs_failed" =>
        /\ "latex_check" \notin Range(steps)
        /\ "latex_repair" \notin Range(steps)
        /\ calls = 0 => /\ pc \in { "constructed", "destroyed" }
                        /\ last_check.kind = "gs"
                        /\ gs_command_ = loaded.fields[4]
                        /\ latex_bin_path_ = loaded.fields[1]
                        /\ fields = loaded.fields

\* The Ghostscript repair failed in the constructor and the loaded path
\* dirA and command gsB are kept.
C9_Witness ==
    /\ ctor_end = "gs_failed"
    /\ pc = "constructed"
    /\ calls = 0
    /\ ret = "false"
    /\ latex_bin_path_ = FilePath("dirA")
    /\ gs_command_ = "gsB"

\* C10: while the constructor's call of SetLatexCommand runs, the field is
\* the empty path; when that call has failed the field is the empty path
\* after construction, and when it has succeeded the field is the candidate
\* for which CheckLatexCommand returned true.
C10_LatexPathResetBeforeRepair ==
    /\ (caller = "ctor" /\ pc \in LatexStates) =>
          /\ latex_bin_path_ = FilePath("")
          /\ entry[1] = FilePath("")
    /\ (ctor_end = "latex_failed" /\ calls = 0) =>
          latex_bin_path_ = FilePath("")
    /\ (ctor_end = "complete" /\ "latex_repair" \in Range(steps) /\ calls = 0)
          => /\ last_check.kind = "latex"
             /\ last_check.result
             /\ latex_bin_path_ = FilePath(last_check.arg)

\* The loaded path dirA failed validation, the user cancelled the repair,
\* and the field is the empty path.
C10_Witness ==
    /\ ctor_end = "latex_failed"
    /\ pc = "constructed"
    /\ calls = 0
    /\ loaded.fields[1] = FilePath("dirA")
    /\ latex_bin_path_ = FilePath("")
    /\ count.invalid >= 1


-----------------------------------------------------------------------------
(* Properties of the accessors.                                            *)

\* The Global object has been built and not destroyed: its constructor
\* returned, at its end or early.
Constructed ==
    /\ ctor_end \in { "complete", "gs_failed", "latex_failed" }
    /\ pc # "destroyed"

Accessors == { "Global", "GlobalMutable", "GlobalPluginMutable" }

\* C11: a call of Global, GlobalMutable or GlobalPluginMutable raises the
\* fatal error in every state in which the Global object has not been
\* constructed, and returns an object, without an error, in every state in
\* which it has been constructed.
C11_AccessorsFailBeforeConstruction ==
    [][ (access' # access /\ access'.function \in Accessors) =>
            IF Constructed
            THEN /\ access'.outcome = "returned"
                 /\ access'.object # nullptr
            ELSE access'.outcome = "l2a_error" ]_vars


\* C18: GlobalPluginMutable never dereferences a null plug-in pointer: in
\* every state in which it returns without raising the fatal error,
\* _l2a_plugin is not nullptr, in whatever order the two global pointers
\* are assigned and reset.
C18_PluginPointerNotNull ==
    [][ (access' # access /\ access'.function = "GlobalPluginMutable"
            /\ access'.outcome # "l2a_error") =>
            /\ _l2a_plugin # nullptr
            /\ access'.outcome = "returned"
            /\ access'.object = _l2a_plugin ]_vars

-----------------------------------------------------------------------------
(* Properties of the construction protocol.                                *)

\* The settings file f decodes without error and lacks one of the six keys.
LacksKey(f) ==
    /\ f.exists
    /\ XmlParses(f.text)
    /\ \E k \in Keys : ~OptionExists(ParameterListFromXml(f.text), k)

\* C12: the partial-load warning is shown during construction exactly if
\* the settings file exists, decodes without error and lacks at least one
\* of the six keys: never for an absent file, a corrupt (then deleted) file
\* or a file with all six keys.  Showing it neither deletes the file nor
\* stops the construction: the next step is the purge.
C12_WarningIffKeyMissing ==
    loaded.outcome # "none" =>
        /\ loaded.warned <=> LacksKey(loaded.found)
        /\ loaded.warned => (pc # "destroyed" => file = loaded.found)
        /\ steps = << "version", "defaults", "load" >> => pc = "purge"
        /\ ctor_end # "none" => Len(steps) > 4

\* The warning was shown for a file without the key gs_command, the file is
\* still there and the constructor has run to its end.
C12_Witness ==
    /\ loaded.warned
    /\ "gs_command" \notin DOMAIN loaded.found.text.options
    /\ file = loaded.found
    /\ ctor_end = "complete"


\* The keys met in the two lists the object writes, and one more.
KeyUniverse ==
    DOMAIN GetDefaultParameterList \cup DOMAIN ToParameterList
        \cup { "unknown_key" }

\* The keys SetFromParameterList tests: those whose absence from a list
\* makes it return false.
TestedKeys ==
    { k \in KeyUniverse :
        ~SetFromParameterList(fields,
            [j \in KeyUniverse \ { k } |->
                IF j \in Keys THEN DocValue(j) ELSE "1"]).set_all }

\* C13: GetDefaultParameterList and ToParameterList produce the same six
\* keys, which are the keys SetFromParameterList tests; so applying the
\* default list in the constructor is a complete load (it returns true)
\* and sets every field, whatever the fields held before: when the file is
\* overlaid no field is uninitialised.
C13_DefaultsSetEveryField ==
    /\ pc \in { "defaults", "load" } =>
          /\ DOMAIN GetDefaultParameterList = DOMAIN ToParameterList
          /\ DOMAIN ToParameterList = TestedKeys
          /\ Cardinality(TestedKeys) = 6
          /\ SetFromParameterList(fields, GetDefaultParameterList).set_all
    /\ pc = "load" => fields = HardcodedDefaults

\* The defaults have been applied and the file is about to be overlaid.
C13_Witness ==
    /\ pc = "load"
    /\ steps = << "version", "defaults" >>
    /\ fields = HardcodedDefaults
    /\ file.exists


-----------------------------------------------------------------------------
(* Properties of SetLatexCommand and of the dialogs.                       *)

\* SetLatexCommand commits in this step.
LatexCommits == pc = "latex_loop" /\ ret' = "true"

\* C14: the first candidate of SetLatexCommand is the caller's argument on
\* Windows and /Library/TeX/texbin on the other platform, whatever the
\* argument: there the candidate, and so the result and the committed
\* value, do not depend on the argument, and what is committed is the fixed
\* directory or, after a dialog, the directory the user picked.
C14_CandidateByPlatform ==
    [][ /\ (pc' = "latex_loop" /\ count'.dialog = 0) =>
               path' = IF WIN_ENV THEN latex_path' ELSE FilePath(TexBin)
        /\ (LatexCommits /\ count.dialog = 0) =>
               latex_bin_path_' =
                   IF WIN_ENV THEN latex_path ELSE FilePath(TexBin)
        /\ (LatexCommits /\ ~WIN_ENV /\ latex_bin_path_' # FilePath(TexBin)) =>
               /\ count.dialog > 0
               /\ \E picked \in PickedDirectories :
                     latex_bin_path_' = FilePath(picked)
        /\ ~WIN_ENV =>
               \A a, b \in ApiPaths :
                  FirstLatexCandidate(FilePath(a)) =
                      FirstLatexCandidate(FilePath(b)) ]_vars

\* Off Windows the caller passed dirA and the candidate under test is the
\* fixed directory.
C14_Witness ==
    /\ ~WIN_ENV
    /\ caller = "api"
    /\ pc = "latex_loop"
    /\ count.dialog = 0
    /\ latex_path = FilePath("dirA")
    /\ path = FilePath(TexBin)


\* C15: when the file dialog of SetGhostscriptCommand, or the directory
\* dialog of SetLatexCommand, returns an error other than kCanceledErr, the
\* error leaves the setter as a fatal error: the call returns neither true
\* nor false, the loop does not go on and no field is changed; out of the
\* constructor no object is built.
C15_DialogErrorIsFatal ==
    [][ (pc \in { "gs_dialog", "latex_dialog" }
            /\ err' \notin { "kNoErr", "kCanceledErr" }) =>
            /\ ret' = "error"
            /\ pc' \notin GsStates \cup LatexStates
            /\ fields' = fields
            /\ fields' = entry
            /\ count'.write = 0
            /\ caller = "ctor" =>
                  /\ pc' = "fatal"
                  /\ ctor_end' = "fatal"
                  /\ _l2a_global' = nullptr ]_vars

\* The file dialog failed in the constructor's call of
\* SetGhostscriptCommand, after one picked file that was not valid.
C15_Witness ==
    /\ err = "kBadParameterErr"
    /\ ret = "error"
    /\ pc = "fatal"
    /\ last_check.kind = "gs"
    /\ count.dialog = 2
    /\ fields = entry


-----------------------------------------------------------------------------
(* Properties of the order of the constructor's steps.                     *)

IsPrefix(a, b) == Len(a) <= Len(b) /\ SubSeq(b, 1, Len(a)) = a

\* The steps of a constructor that runs to its end: each repair-setter is
\* called or not.
StepOrders ==
    { << "version", "defaults", "load", "purge", "gs_check" >> \o g \o
      << "latex_check" >> \o l :
          g \in { << >>, << "gs_repair" >> },
          l \in { << >>, << "latex_repair" >> } }

\* C16: the constructor takes its steps in one order: version check,
\* defaults, load (or deletion) of the settings file, purge of the
\* temporary directory, validation and repair of the Ghostscript command,
\* validation and repair of the LaTeX directory.  The purge comes after the
\* settings are loaded and before any validation command is executed and
\* before any repair prompt is shown.
C16_StepsInOrder ==
    /\ \E order \in StepOrders : IsPrefix(steps, order)
    /\ "defaults" \in Range(steps) <=> pc \notin { "start", "defaults" }
    /\ "load" \in Range(steps) <=> loaded.outcome # "none"
    /\ "purge" \in Range(steps) => loaded.outcome # "none"
    /\ "purge" \notin Range(steps) =>
          /\ last_check = NoCheck
          /\ entry = << >>
          /\ count = ZeroCount
          /\ validated = NoneValidated
    /\ last_check.kind = "latex" => "gs_check" \in Range(steps)

\* Both repair-setters were called and the constructor ran to its end.
C16_Witness ==
    /\ ctor_end = "complete"
    /\ steps = << "version", "defaults", "load", "purge", "gs_check",
                  "gs_repair", "latex_check", "latex_repair" >>
    /\ count.confirm > 0


-----------------------------------------------------------------------------
(* Properties of the constructed object.                                   *)

\* The constructor has returned and no call was made on the object since.
JustConstructed ==
    /\ ctor_end \in { "complete", "gs_failed", "latex_failed" }
    /\ calls = 0

\* Both values were accepted by their predicates in this construction.
BothValidated ==
    /\ gs_command_ \in validated.gs
    /\ GetFullPath(latex_bin_path_) \in validated.latex

\* C17: when the constructor has run to its end (no repair-setter returned
\* false, no fatal error), gs_command_ and latex_bin_path_ each hold a
\* value for which the predicate returned true during this construction;
\* and a constructed object with a value that never passed validation
\* exists only after a repair-setter returned false.
C17_CompleteMeansValidated ==
    /\ (ctor_end = "complete" /\ calls = 0) => BothValidated
    /\ (JustConstructed /\ ~BothValidated) =>
          /\ ctor_end \in { "gs_failed", "latex_failed" }
          /\ ret = "false"
    /\ (ctor_end = "latex_failed" /\ calls = 0) =>
          gs_command_ \in validated.gs

\* The constructor ran to its end after the user picked gsA and dirB.
C17_Witness ==
    /\ ctor_end = "complete"
    /\ calls = 0
    /\ pc = "constructed"
    /\ gs_command_ = "gsA"
    /\ latex_bin_path_ = FilePath("dirB")
    /\ validated = [gs |-> { "gsA" }, latex |-> { "dirB" }]
    /\ "gs_repair" \in Range(steps)


-----------------------------------------------------------------------------
(* Termination of the repair-setters and of the constructor.               *)

SetterStates == GsStates \cup LatexStates

\* The responses consumed by the running repair-setter at each point of
\* its loop: one confirmation and one picker response for every candidate
\* found invalid before.
ResponsesMatchIterations ==
    /\ pc \in { "gs_loop", "latex_loop" } =>
          count.confirm = count.invalid /\ count.dialog = count.invalid
    /\ pc \in { "gs_confirm", "latex_confirm" } =>
          count.confirm = count.invalid - 1 /\ count.dialog = count.confirm
    /\ pc \in { "gs_dialog", "latex_dialog" } =>
          count.confirm = count.invalid /\ count.dialog = count.confirm - 1

\* C19: with a user who in the end cancels or picks a valid candidate (at
\* most MaxDialogs candidates that are not valid), each repair-setter
\* terminates, every iteration of its loop that does not end the call
\* consumes exactly one confirmation response and one picker response, and
\* the constructor finishes.
C19_SettersTerminate ==
    /\ [][ /\ ResponsesMatchIterations'
           /\ (pc \in { "gs_dialog", "latex_dialog" } /\ pc' \in SetterStates) =>
                 /\ count'.dialog = count.dialog + 1
                 /\ count'.confirm = count.confirm ]_vars
    /\ (pc \in SetterStates) ~> (pc \notin SetterStates)
    /\ <>(ctor_end # "none")

\* A repair-setter called after construction has returned true after
\* MaxDialogs iterations of its loop.
C19_Witness ==
    /\ caller = "api"
    /\ pc = "constructed"
    /\ ret = "true"
    /\ count.confirm = MaxDialogs
    /\ count.dialog = MaxDialogs
    /\ count.invalid = MaxDialogs


-----------------------------------------------------------------------------
(* The Ghostscript command in the constructor.                             *)

\* C20: in the constructor, when the loaded Ghostscript command passes
\* validation, neither the discovery nor SetGhostscriptCommand is invoked
\* and gs_command_ is unchanged; when it fails and the discovered candidate
\* passes validation, gs_command_ becomes the discovered candidate without
\* a prompt, and the constructor goes on to the validation of the LaTeX
\* directory.
C20_DiscoveryOnlyOnFailure ==
    [][ /\ pc = "gs_validate" =>
              /\ last_check'.arg = gs_command_
              /\ IF last_check'.result
                 THEN /\ pc' = "latex_validate"
                      /\ fields' = fields
                      /\ gs_command' = gs_command
                      /\ entry' = entry
                      /\ count' = count
                      /\ "gs_repair" \notin Range(steps')
                 ELSE pc' = "gs_discover"
        /\ pc = "gs_discover" =>
              /\ ~last_check.result
              /\ pc' = "gs_loop"
              /\ gs_command' \in DiscoveredCommands
              /\ count' = ZeroCount
        /\ (pc = "gs_loop" /\ caller = "ctor" /\ count = ZeroCount
                /\ last_check'.result) =>
              /\ gs_command \in DiscoveredCommands
              /\ last_check'.arg = gs_command
              /\ gs_command_' = gs_command
              /\ count'.confirm = 0
              /\ count'.dialog = 0
              /\ pc' = "latex_validate"
              /\ ctor_end' = "none" ]_vars

\* The loaded command gsB was not valid, the discovered gsA was: it is
\* stored without a prompt and the LaTeX directory is validated next.
C20_Witness ==
    /\ pc = "latex_validate"
    /\ loaded.fields[4] = "gsB"
    /\ gs_command_ = "gsA"
    /\ "gs_repair" \in Range(steps)
    /\ count = [ZeroCount EXCEPT !.write = 1]
    /\ ret = "true"

=============================================================================
